---- MODULE Spec2Model ----
(***************************************************************************)
(* Model of accept-language (src/src/lib.rs): Language::new,               *)
(* Language::quality_with_default, the Ord/PartialEq impls of Language,    *)
(* parse and intersection.                                                 *)
(*                                                                         *)
(* A Rust str is a sequence of characters, each character a one-element    *)
(* TLA+ string; "U+00E9" stands for a character whose UTF-8 encoding takes *)
(* two bytes.  An f64 is [nan, num, den]: NaN, or the rational num/den.    *)
(* A call that panics is recorded in the variable panicked.                *)
(***************************************************************************)
EXTENDS Integers, Sequences, FiniteSets

-----------------------------------------------------------------------------
(* Bounds of the input space *)

\* largest number of comma-separated segments of a header
MaxSegs == 3

\* largest number of characters of a tag handed directly to Language::new
MaxTagLen == 5

-----------------------------------------------------------------------------
(* f64 *)

F(n, d) == [nan |-> FALSE, num |-> n, den |-> d]
NaN == [nan |-> TRUE, num |-> 0, den |-> 1]

\* IEEE comparisons: every comparison with NaN is false
FGt(x, y) == ~x.nan /\ ~y.nan /\ x.num * y.den > y.num * x.den
FLt(x, y) == FGt(y, x)
FEq(x, y) == ~x.nan /\ ~y.nan /\ x.num * y.den = y.num * x.den

-----------------------------------------------------------------------------
(* str *)

\* length of the UTF-8 encoding of a character
ByteLen(c) == IF c = "U+00E9" THEN 2 ELSE 1

RECURSIVE Bytes(_)
Bytes(s) == IF s = <<>> THEN 0 ELSE ByteLen(Head(s)) + Bytes(Tail(s))

\* str::replace(" ", "")
replace(s) == SelectSeq(s, LAMBDA c : c # " ")

\* str::split(sep).collect(): the pieces between the occurrences of sep;
\* a string without sep (the empty string included) is one piece
RECURSIVE split(_, _)
split(s, sep) ==
  IF \E i \in 1..Len(s) : s[i] = sep
  THEN LET i == CHOOSE k \in 1..Len(s) :
                   s[k] = sep /\ \A j \in 1..(k - 1) : s[j] # sep
       IN  <<SubSeq(s, 1, i - 1)>> \o split(SubSeq(s, i + 1, Len(s)), sep)
  ELSE <<s>>

\* byte offset of the slice &raw_quality[2..]
QualityPrefixLen == 2

\* &s[n..]: panics when n is beyond the end of s or inside a character
SliceFrom(s, n) ==
  IF \E k \in 0..Len(s) : Bytes(SubSeq(s, 1, k)) = n
  THEN LET k == CHOOSE k \in 0..Len(s) : Bytes(SubSeq(s, 1, k)) = n
       IN  [panicked |-> FALSE, value |-> SubSeq(s, k + 1, Len(s))]
  ELSE [panicked |-> TRUE, value |-> <<>>]

Digits == {"0", "1", "5"}

DigitVal(c) == IF c = "0" THEN 0 ELSE IF c = "1" THEN 1 ELSE 5

RECURSIVE DigitsVal(_)
DigitsVal(s) ==
  IF s = <<>> THEN 0
  ELSE 10 * DigitsVal(SubSeq(s, 1, Len(s) - 1)) + DigitVal(s[Len(s)])

RECURSIVE Pow10(_)
Pow10(n) == IF n = 0 THEN 1 ELSE 10 * Pow10(n - 1)

AllDigits(t) == \A i \in 1..Len(t) : t[i] \in Digits

\* the digits before the first "." of s (all of s when it has none)
int_part(s) ==
  IF \E i \in 1..Len(s) : s[i] = "."
  THEN SubSeq(s, 1, (CHOOSE i \in 1..Len(s) :
                       s[i] = "." /\ \A j \in 1..(i - 1) : s[j] # ".") - 1)
  ELSE s

\* the text after the first "." of s (empty when it has none)
frac_part(s) ==
  IF \E i \in 1..Len(s) : s[i] = "."
  THEN SubSeq(s, (CHOOSE i \in 1..Len(s) :
                    s[i] = "." /\ \A j \in 1..(i - 1) : s[j] # ".") + 1, Len(s))
  ELSE <<>>

\* digits ["." digits] with at least one digit
parse_decimal(int, frac) ==
  IF AllDigits(int) /\ AllDigits(frac) /\ Len(int) + Len(frac) > 0
  THEN [ok |-> TRUE, val |-> F(DigitsVal(int \o frac), Pow10(Len(frac)))]
  ELSE [ok |-> FALSE, val |-> F(0, 1)]

parse_unsigned(s) ==
  IF s = <<"N", "a", "N">>
  THEN [ok |-> TRUE, val |-> NaN]
  ELSE parse_decimal(int_part(s), frac_part(s))

negate(r) ==
  [ok |-> r.ok,
   val |-> [nan |-> r.val.nan, num |-> 0 - r.val.num, den |-> r.val.den]]

\* f64::from_str on the strings of this model's alphabet (no exponent, no
\* "inf"): ["-"] "NaN", or ["-"] digits ["." digits] with at least one digit
from_str(s) ==
  IF s # <<>> /\ s[1] = "-"
  THEN negate(parse_unsigned(Tail(s)))
  ELSE parse_unsigned(s)

-----------------------------------------------------------------------------
(* Language *)

\* match f64::from_str(..) { Ok(q) => q, Err(_) => 0.0 }
ok_or_zero(parsed) ==
  IF parsed.ok
  THEN [panicked |-> FALSE, value |-> parsed.val]
  ELSE [panicked |-> FALSE, value |-> F(0, 1)]

\* quality_with_default once quality_str is sliced
quality_of(quality_str) ==
  IF quality_str.panicked
  THEN [panicked |-> TRUE, value |-> F(0, 1)]
  ELSE ok_or_zero(from_str(quality_str.value))

\* Language::quality_with_default
quality_with_default(raw_quality) ==
  quality_of(SliceFrom(raw_quality, QualityPrefixLen))

\* Language { name: name, quality: quality }
make_language(name, quality) ==
  [panicked |-> quality.panicked,
   value |-> [name |-> name, quality |-> quality.value]]

\* Language::new once the tag is split: nth(0) is the first piece, the next
\* nth(0) the second
language_of(tag_parts) ==
  make_language(tag_parts[1],
                IF Len(tag_parts) >= 2
                THEN quality_with_default(tag_parts[2])
                ELSE [panicked |-> FALSE, value |-> F(1, 1)])

\* Language::new with the tag cut in two at its first ";" (splitn(2, ";"))
Language_new_splitn(tag) ==
  language_of(IF \E i \in 1..Len(tag) : tag[i] = ";"
              THEN <<SubSeq(tag, 1, Len(split(tag, ";")[1])),
                     SubSeq(tag, Len(split(tag, ";")[1]) + 2, Len(tag))>>
              ELSE <<tag>>)

\* Language::new
Language_new(tag) == language_of(split(tag, ";"))

\* cmp with >= in place of > in its first comparison
cmp_ge(self, other) ==
  IF FGt(self.quality, other.quality) \/ FEq(self.quality, other.quality)
  THEN "Less"
  ELSE IF FLt(self.quality, other.quality) THEN "Greater"
  ELSE "Equal"

\* impl Ord for Language: cmp
cmp(self, other) ==
  IF FGt(self.quality, other.quality) THEN "Less"
  ELSE IF FLt(self.quality, other.quality) THEN "Greater"
  ELSE "Equal"

\* le in place of lt
lt_le(self, other) == cmp(self, other) # "Greater"

\* PartialOrd::lt through partial_cmp, the comparison slice::sort uses
lt(self, other) == cmp(self, other) = "Less"

\* slice::sort on a slice of at most 20 elements: insertion sort, each
\* element moved left past the elements it is less than
RECURSIVE insert_tail(_, _)
insert_tail(v, x) ==
  IF v # <<>> /\ lt(x, v[Len(v)])
  THEN Append(insert_tail(SubSeq(v, 1, Len(v) - 1), x), v[Len(v)])
  ELSE Append(v, x)

RECURSIVE sort(_)
sort(v) ==
  IF v = <<>> THEN <<>>
  ELSE insert_tail(sort(SubSeq(v, 1, Len(v) - 1)), v[Len(v)])

-----------------------------------------------------------------------------
(* parse and intersection *)

\* .iter().map(|l| Language::new(l)).collect()
map_new(languages_str_parts) ==
  [i \in 1..Len(languages_str_parts) |-> Language_new(languages_str_parts[i])]

\* the collected Vec<Language>, sorted; a panic of Language::new ends the call
sort_made(made) ==
  IF \E i \in 1..Len(made) : made[i].panicked
  THEN [panicked |-> TRUE, value |-> <<>>]
  ELSE [panicked |-> FALSE,
        value |-> sort([i \in 1..Len(made) |-> made[i].value])]

\* parse, up to and including languages_string_parts.sort()
parse_sorted(raw_languages) ==
  sort_made(map_new(split(replace(raw_languages), ",")))

\* the tail of parse without its filter
names_of_unfiltered(languages_string_parts) ==
  [i \in 1..Len(languages_string_parts) |-> languages_string_parts[i].name]

\* Vec::dedup() with the PartialEq of Language, which compares the quality only
RECURSIVE dedup(_)
dedup(v) ==
  IF Len(v) <= 1 THEN v
  ELSE IF FEq(dedup(SubSeq(v, 1, Len(v) - 1))
                [Len(dedup(SubSeq(v, 1, Len(v) - 1)))].quality,
              v[Len(v)].quality)
       THEN dedup(SubSeq(v, 1, Len(v) - 1))
       ELSE Append(dedup(SubSeq(v, 1, Len(v) - 1)), v[Len(v)])

\* the tail of parse with a dedup() before it
names_of_dedup(languages_string_parts) ==
  names_of_unfiltered(
    SelectSeq(dedup(languages_string_parts), LAMBDA l : l.name # <<>>))

\* the tail of parse: the names, the empty ones filtered out
names_of(languages_string_parts) ==
  SelectSeq([i \in 1..Len(languages_string_parts) |->
               languages_string_parts[i].name],
            LAMBDA l : l # <<>>)

\* parse once languages_string_parts is sorted
collect_names(sorted) ==
  IF sorted.panicked
  THEN [panicked |-> TRUE, value |-> <<>>]
  ELSE [panicked |-> FALSE, value |-> names_of(sorted.value)]

\* parse
parse(raw_languages) == collect_names(parse_sorted(raw_languages))

\* the filter of intersection
filter_supported(user_languages, supported_languages) ==
  IF user_languages.panicked
  THEN [panicked |-> TRUE, value |-> <<>>]
  ELSE [panicked |-> FALSE,
        value |-> SelectSeq(user_languages.value,
                            LAMBDA l : \E i \in 1..Len(supported_languages) :
                                          supported_languages[i] = l)]

\* the filter turned around: the supported list filtered by the user's languages
filter_user(user_languages, supported_languages) ==
  IF user_languages.panicked
  THEN [panicked |-> TRUE, value |-> <<>>]
  ELSE [panicked |-> FALSE,
        value |-> SelectSeq(supported_languages,
                            LAMBDA l : \E i \in 1..Len(user_languages.value) :
                                          user_languages.value[i] = l)]

\* intersection that filters the supported list by the user's languages
intersection_by_supported(raw_languages, supported_languages) ==
  filter_user(parse(raw_languages), supported_languages)

\* intersection
intersection(raw_languages, supported_languages) ==
  filter_supported(parse(raw_languages), supported_languages)

-----------------------------------------------------------------------------
(* Inputs *)

\* concatenation of the strings of ss, sep between them
RECURSIVE join(_, _)
join(ss, sep) ==
  IF ss = <<>> THEN <<>>
  ELSE IF Len(ss) = 1 THEN ss[1]
  ELSE ss[1] \o <<sep>> \o join(Tail(ss), sep)

\* the segments headers are made of
Segments ==
  { <<>>,
    <<" ">>,
    <<"a">>,
    <<" ", "b">>,
    <<"b", ";", "q", "=", ".", "5">>,
    <<"a", ";", " ", "q", "=", ".", "1">>,
    <<"c", ";", "q", "=", "x">>,
    <<"b", ";", "q", "=", "-", "1">>,
    <<"b", ";", "q", "=", "N", "a", "N">>,
    <<"a", ";">>,
    <<"b", ";", "q">>,
    <<"a", ";", "q", "U+00E9">>,
    <<";", "q", "=", "1">>,
    <<"a", ";", "q", "=", ".", "5", ";", "x">> }

\* the headers: up to MaxSegs segments joined by commas
Headers ==
  { join(ss, ",") : ss \in UNION { [1..n -> Segments] : n \in 1..MaxSegs } }

\* the characters of the tags handed directly to Language::new
TagAlphabet == {"a", ";", "q", "=", "1", "."}

\* every tag of at most MaxTagLen characters, and every segment as parse
\* hands it to Language::new
Tags ==
  UNION { [1..n -> TagAlphabet] : n \in 0..MaxTagLen }
    \cup { replace(s) : s \in Segments }

\* the supported-language lists
SupportedLists ==
  { << <<"A">> >>,
    << <<"b">> >>,
    << <<"b">>, <<"a">> >> }

-----------------------------------------------------------------------------
(* State: one call, its arguments and what it produced.  The functions are *)
(* pure and share no state, so a behaviour is one call from the idle state, *)
(* followed for intersection by the call on its own result.                *)

VARIABLES
  op,            \* the function called
  header,        \* raw_languages, the argument of parse / intersection
  supported,     \* supported_languages, the argument of intersection
  tag_arg,       \* tag, the argument of Language::new
  quality_arg,   \* raw_quality, the argument of quality_with_default
  sorted_parts,  \* languages_string_parts, parse's Vec<Language> after sort()
  result,        \* the Vec<String> returned by parse / intersection
  language,      \* the Language returned by Language::new
  quality_out,   \* the f64 returned by quality_with_default
  panicked,      \* the call panicked instead of returning
  previous       \* the list that was joined into header

vars == <<op, header, supported, tag_arg, quality_arg,
          sorted_parts, result, language, quality_out, panicked,
          previous>>

NoLanguage == [name |-> <<>>, quality |-> F(1, 1)]

Init ==
  /\ op = "none"
  /\ header = <<>>
  /\ supported = <<>>
  /\ tag_arg = <<>>
  /\ quality_arg = <<>>
  /\ sorted_parts = <<>>
  /\ result = <<>>
  /\ language = NoLanguage
  /\ quality_out = F(1, 1)
  /\ panicked = FALSE
  /\ previous = <<>>

\* a call of quality_with_default and what it produced
QualityCalled(r, ret) ==
  /\ op' = "quality_with_default"
  /\ quality_arg' = r
  /\ quality_out' = ret.value
  /\ panicked' = ret.panicked
  /\ UNCHANGED <<header, supported, tag_arg, sorted_parts, result, language,
                 previous>>

\* a call of Language::new and what it produced
LanguageCalled(t, ret) ==
  /\ op' = "new"
  /\ tag_arg' = t
  /\ language' = ret.value
  /\ panicked' = ret.panicked
  /\ UNCHANGED <<header, supported, quality_arg, sorted_parts, result,
                 quality_out, previous>>

\* a call f of parse or intersection and what it produced
ListCalled(f, h, s, sorted, ret, prev) ==
  /\ op' = f
  /\ header' = h
  /\ supported' = s
  /\ sorted_parts' = sorted.value
  /\ result' = ret.value
  /\ panicked' = ret.panicked
  /\ previous' = prev
  /\ UNCHANGED <<tag_arg, quality_arg, language, quality_out>>

\* Language::quality_with_default(r)
QualityWithDefault ==
  /\ op = "none"
  /\ \E r \in Tags : QualityCalled(r, quality_with_default(r))

\* Language::new(t)
NewLanguage ==
  /\ op = "none"
  /\ \E t \in Tags : LanguageCalled(t, Language_new(t))

\* parse(h)
Parse ==
  /\ op = "none"
  /\ \E h \in Headers :
       ListCalled("parse", h, <<>>, parse_sorted(h), parse(h), <<>>)

\* intersection(h, s)
Intersection ==
  /\ op = "none"
  /\ \E h \in Headers, s \in SupportedLists :
       ListCalled("intersection", h, s, parse_sorted(h), intersection(h, s),
                  <<>>)

\* intersection called on the list a call of intersection returned, joined
\* by commas, with the same supported languages
Refilter ==
  /\ op = "intersection"
  /\ ~panicked
  /\ ListCalled("refilter", join(result, ","), supported,
                parse_sorted(join(result, ",")),
                intersection(join(result, ","), supported), result)

Next ==
  \/ QualityWithDefault
  \/ NewLanguage
  \/ Parse
  \/ Intersection
  \/ Refilter

Spec == Init /\ [][Next]_vars

-----------------------------------------------------------------------------
(* Vocabulary of the properties, defined on the text of the input *)

FGe(x, y) == FGt(x, y) \/ FEq(x, y)

\* index of the first c in s, 0 when s has none
FirstIndex(s, c) ==
  IF \E i \in 1..Len(s) : s[i] = c
  THEN CHOOSE i \in 1..Len(s) : s[i] = c /\ \A j \in 1..(i - 1) : s[j] # c
  ELSE 0

HasParam(seg) == FirstIndex(seg, ";") # 0

\* the text before the first ";", the whole segment when it has none
NameOf(seg) ==
  IF HasParam(seg) THEN SubSeq(seg, 1, FirstIndex(seg, ";") - 1) ELSE seg

\* all of the text after the first ";"
AfterFirst(seg) == SubSeq(seg, FirstIndex(seg, ";") + 1, Len(seg))

\* the text between the first ";" and the next one (or the end)
ParamOf(seg) == NameOf(AfterFirst(seg))

\* the text after the first two characters
AfterPrefix(param) == SubSeq(param, 3, Len(param))

\* the weight the weight rule gives to a parameter part
RuleWeight(param) ==
  IF from_str(AfterPrefix(param)).ok
  THEN from_str(AfterPrefix(param)).val
  ELSE F(0, 1)

\* a parameter part whose quality value does not parse
Malformed(seg) == HasParam(seg) /\ ~from_str(AfterPrefix(ParamOf(seg))).ok

\* the comma-separated segments of a header, spaces removed
SegmentsOf(h) == split(replace(h), ",")

\* the weight Language construction gives to a segment
WeightOf(seg) == Language_new(seg).value.quality

Count(seq, x) == Cardinality({i \in 1..Len(seq) : seq[i] = x})

Returned(f) == op = f /\ ~panicked

\* the entries of seq that occur in list, in the order of seq
RECURSIVE KeepIn(_, _)
KeepIn(seq, list) ==
  IF seq = <<>> THEN <<>>
  ELSE IF \E i \in 1..Len(list) : list[i] = Head(seq)
       THEN <<Head(seq)>> \o KeepIn(Tail(seq), list)
       ELSE KeepIn(Tail(seq), list)

\* the names of the entries of langs whose weight equals w, empty names left out
NamesWithWeight(langs, w) ==
  LET same == SelectSeq(langs, LAMBDA l : FEq(l.quality, w) /\ l.name # <<>>)
  IN  [i \in 1..Len(same) |-> same[i].name]

\* the segments of h as (name, weight) entries, in header order
EntriesOf(h) ==
  [i \in 1..Len(SegmentsOf(h)) |->
     [name |-> NameOf(SegmentsOf(h)[i]), quality |-> WeightOf(SegmentsOf(h)[i])]]

-----------------------------------------------------------------------------
(* C1 *)

\* C1: parse and intersection never fail: every call returns a list and does
\* not panic.
C1_NeverFails ==
  op \in {"parse", "intersection", "refilter"} => ~panicked

-----------------------------------------------------------------------------
(* C2 *)

\* C2: parse returns the names in descending order of weight: whenever the
\* name of one segment is before the name of another in the output, the
\* weight of the first is >= the weight of the second.
C2_DescendingWeight ==
  Returned("parse") =>
    /\ result = names_of(sorted_parts)
    /\ \A i, j \in 1..Len(sorted_parts) :
         (/\ i < j
          /\ sorted_parts[i].name # <<>>
          /\ sorted_parts[j].name # <<>>)
           => FGe(sorted_parts[i].quality,
                  sorted_parts[j].quality)

-----------------------------------------------------------------------------
(* C3 *)

\* C3: intersection(h, S) is parse(h) with the entries that equal no element
\* of S removed, the others in their order in parse(h); every element of the
\* result is in S and in parse(h); the result is empty when nothing overlaps.
C3_IntersectionFiltersParse ==
  Returned("intersection") =>
    /\ ~parse(header).panicked
    /\ result = KeepIn(parse(header).value, supported)
    /\ \A i \in 1..Len(result) :
         /\ Count(supported, result[i]) > 0
         /\ Count(parse(header).value, result[i]) > 0
    /\ (\A i \in 1..Len(parse(header).value) :
          Count(supported, parse(header).value[i]) = 0)
         => result = <<>>

\* a call that removed an entry and kept two, in an order that differs from
\* the order of the supported list
C3_Witness ==
  /\ Returned("intersection")
  /\ Len(supported) >= 2
  /\ Len(result) >= 2
  /\ Len(result) < Len(parse(header).value)
  /\ result[1] = supported[2]
  /\ result[2] = supported[1]

-----------------------------------------------------------------------------
(* C4 *)

\* C4: no element of parse's output is the empty string, and a header made
\* only of spaces and commas yields the empty list.
C4_NoEmptyName ==
  /\ Returned("parse") => \A i \in 1..Len(result) : result[i] # <<>>
  /\ (op = "parse" /\ \A i \in 1..Len(header) :
                         header[i] \in {" ", ","})
       => ~panicked /\ result = <<>>

\* a header with a segment whose name is empty next to a named one
C4_Witness ==
  /\ Returned("parse")
  /\ \E i \in 1..Len(SegmentsOf(header)) :
       /\ NameOf(SegmentsOf(header)[i]) = <<>>
       /\ HasParam(SegmentsOf(header)[i])
  /\ \E i \in 1..Len(SegmentsOf(header)) :
       SegmentsOf(header)[i] = <<>>
  /\ Len(header) > Len(replace(header))
  /\ result # <<>>

-----------------------------------------------------------------------------
(* C5 *)

\* C5: Language construction gives every segment the weight 1.0 when it has
\* no parameter part, otherwise the number its parameter part parses to after
\* the 2-character prefix, and 0.0, not an error, when that parsing fails.
C5_WeightRule ==
  op = "new" =>
    /\ ~panicked
    /\ ~HasParam(tag_arg) => FEq(language.quality, F(1, 1))
    /\ HasParam(tag_arg) => language.quality = RuleWeight(ParamOf(tag_arg))

-----------------------------------------------------------------------------
(* C6 *)

\* C6: filtering is idempotent: the result of intersection, joined by commas
\* and given to intersection again with the same supported list, comes back
\* unchanged.
C6_Idempotent ==
  op = "refilter" => ~panicked /\ result = previous

\* a second call on a list of two different names
C6_Witness ==
  /\ op = "refilter"
  /\ Len(previous) >= 2
  /\ previous[1] # previous[2]
  /\ result = previous

-----------------------------------------------------------------------------
(* C7 *)

\* C7: an entry whose quality value does not parse gets weight 0.0 and is
\* ranked lowest: it is in the output when its name is not empty, no other
\* entry of the header has a lower weight, and every entry with a different
\* weight is before it in the output.
C7_MalformedRankedLowest ==
  Returned("parse") =>
    \A k \in 1..Len(SegmentsOf(header)) :
      Malformed(SegmentsOf(header)[k]) =>
        /\ FEq(WeightOf(SegmentsOf(header)[k]), F(0, 1))
        /\ NameOf(SegmentsOf(header)[k]) # <<>>
             => Count(result, NameOf(SegmentsOf(header)[k])) > 0
        /\ \A m \in 1..Len(sorted_parts) :
             FGe(sorted_parts[m].quality, F(0, 1))
        /\ \A p, r \in 1..Len(sorted_parts) :
             (/\ FEq(sorted_parts[p].quality, F(0, 1))
              /\ ~FEq(sorted_parts[r].quality, F(0, 1)))
               => r < p

-----------------------------------------------------------------------------
(* C8 *)

\* C8 as stated: the name is the text before the first ";" and the weight is
\* derived from all of the text after the first ";".
C8_WholeRestIsParameter ==
  (op = "new" /\ HasParam(tag_arg)) =>
    /\ panicked = quality_with_default(AfterFirst(tag_arg)).panicked
    /\ ~panicked =>
         /\ language.name = NameOf(tag_arg)
         /\ language.quality = quality_with_default(AfterFirst(tag_arg)).value

\* C8 amended: the name is the text before the first ";" and the weight is
\* derived from the text between the first ";" and the next ";" (or the end
\* of the segment); what follows a second ";" is ignored.
C8_ParameterEndsAtNextSemicolon ==
  /\ (op = "new" /\ HasParam(tag_arg)) =>
       /\ panicked = quality_with_default(ParamOf(tag_arg)).panicked
       /\ ~panicked =>
            /\ language.name = NameOf(tag_arg)
            /\ language.quality = quality_with_default(ParamOf(tag_arg)).value
  /\ (op = "new" /\ ~HasParam(tag_arg)) =>
       ~panicked /\ language.name = tag_arg

\* a tag with text after a second ";" whose weight is the number before it
C8_Witness ==
  /\ Returned("new")
  /\ HasParam(tag_arg)
  /\ HasParam(AfterFirst(tag_arg))
  /\ language.name # <<>>
  /\ FGt(language.quality, F(0, 1))
  /\ ~from_str(AfterPrefix(AfterFirst(tag_arg))).ok

-----------------------------------------------------------------------------
(* C9 *)

\* C9: ties are broken by header position: segments with equal weight and
\* non-empty names are in the output in their order in the header.
C9_TiesKeepHeaderOrder ==
  Returned("parse") =>
    \A k \in 1..Len(EntriesOf(header)) :
      NamesWithWeight(sorted_parts, EntriesOf(header)[k].quality)
        = NamesWithWeight(EntriesOf(header), EntriesOf(header)[k].quality)

\* two different names of equal weight behind which a heavier segment was
\* moved to the front
C9_Witness ==
  /\ Returned("parse")
  /\ Len(result) = 3
  /\ \E i, j \in 1..Len(EntriesOf(header)) :
       /\ i < j
       /\ j < Len(EntriesOf(header))
       /\ EntriesOf(header)[i].name # <<>>
       /\ EntriesOf(header)[j].name # <<>>
       /\ EntriesOf(header)[i].name # EntriesOf(header)[j].name
       /\ FEq(EntriesOf(header)[i].quality, EntriesOf(header)[j].quality)
       /\ FGt(EntriesOf(header)[Len(EntriesOf(header))].quality,
              EntriesOf(header)[i].quality)
       /\ result[2] = EntriesOf(header)[i].name
       /\ result[3] = EntriesOf(header)[j].name

-----------------------------------------------------------------------------
(* C10 *)

\* C10: parse neither loses nor merges entries: its output has every
\* non-empty segment name as many times as the header has segments of that
\* name, and nothing else.
C10_PermutationOfNames ==
  Returned("parse") =>
    LET names == [i \in 1..Len(SegmentsOf(header)) |->
                    NameOf(SegmentsOf(header)[i])]
    IN  /\ \A i \in 1..Len(names) :
             names[i] # <<>> => Count(result, names[i]) = Count(names, names[i])
        /\ \A i \in 1..Len(result) : Count(names, result[i]) > 0
        /\ Len(result) = Cardinality({i \in 1..Len(names) : names[i] # <<>>})

\* a name listed twice with one weight, and another name of that weight
C10_Witness ==
  /\ Returned("parse")
  /\ Len(result) = 3
  /\ \E x \in 1..3 : Count(result, result[x]) = 2
  /\ \A i, j \in 1..Len(sorted_parts) :
       FEq(sorted_parts[i].quality, sorted_parts[j].quality)

====
